---- MODULE Spec2Model ----
(***************************************************************************)
(* Model of demo_runner.py, the launcher of the Emotional Avatar demo.     *)
(*                                                                         *)
(* The module body is a straight run of four statements:                   *)
(*   line 11  sys.path.insert(0, str(Path(__file__).parent / "src"))       *)
(*   line 14  if __name__ == "__main__":                                   *)
(*   line 15      from ui.dashboard import main                            *)
(*   line 16      main()                                                   *)
(*                                                                         *)
(* Filesystem locations are sequences of path components.  The interpreter *)
(* is the default CPython import machinery in a process where no module    *)
(* named ui has been loaded before the module body runs, and the code of   *)
(* ui.dashboard is an external collaborator that does not write sys.path.  *)
(***************************************************************************)
EXTENDS Naturals, Sequences, FiniteSets

\* Longest module search path the process starts with.
MaxPrior == 2

----------------------------------------------------------------------------
(* The environment of one process *)

\* __file__ is not bound (python -c, exec of a source string).
NoFile == <<>>

\* Places the entry file can be at.
EntryFiles == { <<"app", "demo_runner.py">>, <<"opt", "demo_runner.py">> }

\* Directories that can be on the module search path.
Locations == { <<"app", "src">>, <<"opt", "src">>, <<"lib">> }

\* What a directory holds under the name ui:
\*   none        nothing
\*   pkg         ui/__init__.py and ui/dashboard.py
\*   pkg_nodash  ui/__init__.py only
\*   ns          ui/dashboard.py without ui/__init__.py (namespace portion)
\*   ns_nodash   an ui/ directory with neither
Kinds == { "none", "pkg", "pkg_nodash", "ns", "ns_nodash" }

IsRegular(k) == k \in { "pkg", "pkg_nodash" }
IsNamespace(k) == k \in { "ns", "ns_nodash" }
HasDashboard(k) == k \in { "pkg", "ns" }

\* Exceptions are values: a type and its argument.
Exc(t, a) == [type |-> t, arg |-> a]
NoExc == Exc("None", "")

\* Errors ui.dashboard.main can raise.
MainErrors == { Exc("ValueError", "E1"), Exc("ModuleNotFoundError", "ui.dashboard") }

\* What ui.dashboard offers as main: missing from the module, a function that
\* returns a value, one that raises, or one that never returns.
MainBehaviours ==
    { [kind |-> "absent", val |-> "None", err |-> NoExc],
      [kind |-> "hang", val |-> "None", err |-> NoExc],
      [kind |-> "return", val |-> "None", err |-> NoExc],
      [kind |-> "return", val |-> "ok", err |-> NoExc] }
    \cup { [kind |-> "raise", val |-> "None", err |-> e] : e \in MainErrors }

Unbound == <<"?">>

RECURSIVE SeqsUpTo(_, _)
SeqsUpTo(S, n) ==
    IF n = 0 THEN { <<>> }
    ELSE LET T == SeqsUpTo(S, n - 1)
         IN T \cup { Append(t, x) : t \in { u \in T : Len(u) = n - 1 }, x \in S }

----------------------------------------------------------------------------
(* Pure functions *)

\* Path(f).parent
Parent(f) == SubSeq(f, 1, Len(f) - 1)

\* Path / name
Join(d, name) == Append(d, name)

\* str(Path(__file__).parent / "src")
SrcLocation(f) == Join(Parent(f), "src")

ListInsert_Append(s, i, x) == Append(s, x)

\* list.insert(i, x) for i >= 0
ListInsert(s, i, x) ==
    IF i >= Len(s) THEN Append(s, x)
    ELSE SubSeq(s, 1, i) \o <<x>> \o SubSeq(s, i + 1, Len(s))

\* Entries of path holding something of a kind in K, in order.
RECURSIVE Select(_, _, _)
Select(path, fs, K) ==
    IF path = <<>> THEN <<>>
    ELSE IF fs[Head(path)] \in K THEN <<Head(path)>> \o Select(Tail(path), fs, K)
         ELSE Select(Tail(path), fs, K)

UiPath_LastWins(path, files) ==
    LET reg == Select(path, files, { k \in Kinds : IsRegular(k) })
        ns == Select(path, files, { k \in Kinds : IsNamespace(k) })
    IN IF reg # <<>> THEN <<reg[Len(reg)]>> ELSE ns

\* import ui: the __path__ of the package the path finder settles on.  The
\* first entry of the search path holding a regular package wins; only when
\* no entry holds one do the namespace portions, in path order, make up the
\* package.  Empty when no entry holds anything named ui.
UiPath(path, files) ==
    LET reg == Select(path, files, { k \in Kinds : IsRegular(k) })
        ns == Select(path, files, { k \in Kinds : IsNamespace(k) })
    IN IF reg # <<>> THEN <<Head(reg)>> ELSE ns

\* import ui.dashboard: the first entry of ui.__path__ holding dashboard.
DashboardOrigin(uipath, files) ==
    LET hit == Select(uipath, files, { k \in Kinds : HasDashboard(k) })
    IN IF hit # <<>> THEN Head(hit) ELSE Unbound

\* Outcome of resolving ui.dashboard over a search path.
Resolve(path, files) ==
    LET up == UiPath(path, files)
    IN IF up = <<>> THEN [found |-> FALSE, origin |-> Unbound, missing |-> "ui"]
       ELSE IF DashboardOrigin(up, files) = Unbound
            THEN [found |-> FALSE, origin |-> Unbound, missing |-> "ui.dashboard"]
            ELSE [found |-> TRUE, origin |-> DashboardOrigin(up, files), missing |-> ""]

----------------------------------------------------------------------------
(* State *)

VARIABLES
    file,           \* __file__, or NoFile
    name,           \* __name__
    files,          \* what each location holds
    mainBehaviour,  \* what the dashboard's main does
    path0,          \* sys.path when the process starts the module body
    sys_path,       \* sys.path
    pc,             \* statement about to run
    main,           \* where the name main was imported from
    imports,        \* executions of the import statement
    calls,          \* invocations of main()
    mainState,      \* progress of the call to main()
    exc             \* exception that ended the run

env == <<file, name, files, mainBehaviour, path0>>
vars == <<file, name, files, mainBehaviour, path0, sys_path, pc, main, imports,
          calls, mainState, exc>>

Init ==
    /\ file \in EntryFiles \cup { NoFile }
    /\ name \in { "__main__", "demo_runner" }
    /\ files \in [Locations -> Kinds]
    /\ mainBehaviour \in MainBehaviours
    /\ path0 \in SeqsUpTo(Locations, MaxPrior)
    /\ sys_path = path0
    /\ pc = "insert"
    /\ main = Unbound
    /\ imports = 0
    /\ calls = 0
    /\ mainState = "not_called"
    /\ exc = NoExc

Raise(e) ==
    /\ pc' = "raised"
    /\ exc' = e

----------------------------------------------------------------------------
(* Statements *)

Insert_NoWrite ==
    /\ pc = "insert"
    /\ pc' = "guard"
    /\ UNCHANGED <<env, sys_path, main, imports, calls, mainState, exc>>

Insert_IfAbsent ==
    /\ pc = "insert"
    /\ IF file = NoFile
       THEN /\ Raise(Exc("NameError", "__file__"))
            /\ UNCHANGED sys_path
       ELSE /\ sys_path' = IF \E i \in 1..Len(sys_path) : sys_path[i] = SrcLocation(file)
                           THEN sys_path
                           ELSE ListInsert(sys_path, 0, SrcLocation(file))
            /\ pc' = "guard"
            /\ UNCHANGED exc
    /\ UNCHANGED <<env, main, imports, calls, mainState>>

Insert_Fallback ==
    /\ pc = "insert"
    /\ sys_path' = ListInsert(sys_path, 0, IF file = NoFile THEN <<"lib">> ELSE SrcLocation(file))
    /\ pc' = "guard"
    /\ UNCHANGED <<env, main, imports, calls, mainState, exc>>

\* line 11: sys.path.insert(0, str(Path(__file__).parent / "src"))
Insert ==
    /\ pc = "insert"
    /\ IF file = NoFile
       THEN /\ Raise(Exc("NameError", "__file__"))
            /\ UNCHANGED sys_path
       ELSE /\ sys_path' = ListInsert(sys_path, 0, SrcLocation(file))
            /\ pc' = "guard"
            /\ UNCHANGED exc
    /\ UNCHANGED <<env, main, imports, calls, mainState>>

Guard_Always ==
    /\ pc = "guard"
    /\ pc' = "import"
    /\ UNCHANGED <<env, sys_path, main, imports, calls, mainState, exc>>

\* line 14: if __name__ == "__main__":
Guard ==
    /\ pc = "guard"
    /\ pc' = IF name = "__main__" THEN "import" ELSE "done"
    /\ UNCHANGED <<env, sys_path, main, imports, calls, mainState, exc>>

Import_Lenient ==
    /\ pc = "import"
    /\ imports' = imports + 1
    /\ LET r == Resolve(sys_path, files)
       IN IF r.found /\ mainBehaviour.kind # "absent"
          THEN /\ main' = r.origin
               /\ pc' = "call"
          ELSE /\ pc' = "done"
               /\ UNCHANGED main
    /\ UNCHANGED <<env, sys_path, calls, mainState, exc>>

\* line 15: from ui.dashboard import main
Import ==
    /\ pc = "import"
    /\ imports' = imports + 1
    /\ LET r == Resolve(sys_path, files)
       IN IF ~r.found
          THEN /\ Raise(Exc("ModuleNotFoundError", r.missing))
               /\ UNCHANGED main
          ELSE IF mainBehaviour.kind = "absent"
          THEN /\ Raise(Exc("ImportError", "main"))
               /\ UNCHANGED main
          ELSE /\ main' = r.origin
               /\ pc' = "call"
               /\ UNCHANGED exc
    /\ UNCHANGED <<env, sys_path, calls, mainState>>

CallMain_NoWait ==
    /\ pc = "call"
    /\ pc' = "done"
    /\ calls' = calls + 1
    /\ mainState' = "running"
    /\ UNCHANGED <<env, sys_path, main, imports, exc>>

\* line 16: main() is entered
CallMain ==
    /\ pc = "call"
    /\ pc' = "in_main"
    /\ calls' = calls + 1
    /\ mainState' = "running"
    /\ UNCHANGED <<env, sys_path, main, imports, exc>>

MainReturns_ExitWithResult ==
    /\ pc = "in_main"
    /\ mainBehaviour.kind = "return"
    /\ mainState' = "returned"
    /\ IF mainBehaviour.val = "None"
       THEN pc' = "done" /\ UNCHANGED exc
       ELSE Raise(Exc("SystemExit", mainBehaviour.val))
    /\ UNCHANGED <<env, sys_path, main, imports, calls>>

\* line 16: main() returns; the value is dropped and the module body ends
MainReturns ==
    /\ pc = "in_main"
    /\ mainBehaviour.kind = "return"
    /\ mainState' = "returned"
    /\ pc' = "done"
    /\ UNCHANGED <<env, sys_path, main, imports, calls, exc>>

MainRaises_Wrapped ==
    /\ pc = "in_main"
    /\ mainBehaviour.kind = "raise"
    /\ mainState' = "raised"
    /\ Raise(Exc("RuntimeError", mainBehaviour.err.arg))
    /\ UNCHANGED <<env, sys_path, main, imports, calls>>

\* line 16: main() raises; nothing encloses the call, the error leaves the
\* module body as it is
MainRaises ==
    /\ pc = "in_main"
    /\ mainBehaviour.kind = "raise"
    /\ mainState' = "raised"
    /\ Raise(mainBehaviour.err)
    /\ UNCHANGED <<env, sys_path, main, imports, calls>>

Next ==
    \/ Insert
    \/ Guard
    \/ Import
    \/ CallMain
    \/ MainReturns
    \/ MainRaises

Spec == Init /\ [][Next]_vars

----------------------------------------------------------------------------
(* Properties *)

\* The run is over: the module body ended or an exception left it.
Terminal == pc \in { "done", "raised" }

\* The src location the run computes.
Src == SrcLocation(file)

OnPath(path, l) == \E i \in 1..Len(path) : path[i] = l

\* C1 (P1, search-path precedence): for every bound entry-file location and
\* every prior search path, once line 11 has run the location
\* <directory of the entry file>/src is the first element of sys.path.
C1_SrcAtFront ==
    (pc # "insert" /\ file # NoFile) =>
        /\ sys_path # <<>>
        /\ sys_path[1] = Src
        /\ (file = <<"app", "demo_runner.py">> => sys_path[1] = <<"app", "src">>)

C1_Witness ==
    /\ pc = "guard"
    /\ Len(path0) >= 2
    /\ ~OnPath(path0, Src)
    /\ sys_path[1] = Src

\* C2 (setup before import): whenever the import of ui.dashboard is about to
\* be attempted or has been attempted, __file__ was bound and the src
\* location is already the first element of sys.path.
C2_InsertBeforeImport ==
    (pc = "import" \/ imports > 0) =>
        /\ file # NoFile
        /\ sys_path # <<>>
        /\ Head(sys_path) = Src
        /\ sys_path # path0

C2_Witness ==
    /\ imports = 1
    /\ path0 # <<>>
    /\ Head(path0) # Src
    /\ Head(sys_path) = Src

\* Some entry of the prior search path other than src holds ui.dashboard.
DashboardElsewhere ==
    \E i \in 1..Len(path0) : path0[i] # Src /\ HasDashboard(files[path0[i]])

\* Some entry of the search path holds a regular package ui.
RegularOnPath ==
    \E i \in 1..Len(sys_path) : IsRegular(files[sys_path[i]])

\* C3 as claimed (local-tree preference): when ui.dashboard exists both under
\* src and under another location of the search path, the import binds main
\* from the one under src.
C3_Original ==
    (main # Unbound /\ HasDashboard(files[Src]) /\ DashboardElsewhere) =>
        main = Src

\* C3 as amended: when src holds ui.dashboard and either src/ui is a regular
\* package or no entry of the search path holds a regular package ui, a
\* successful import binds main from src, also when another entry of the
\* search path holds ui.dashboard, and the main() that runs is that one.
C3_LocalPreferred ==
    ( /\ imports = 1
      /\ HasDashboard(files[Src])
      /\ (IsRegular(files[Src]) \/ ~RegularOnPath)
      /\ mainBehaviour.kind # "absent" ) =>
        /\ main = Src
        /\ calls <= 1

C3_Witness ==
    /\ calls = 1
    /\ main = Src
    /\ HasDashboard(files[Src])
    /\ DashboardElsewhere
    /\ RegularOnPath

\* C4 (P2, single insertion): line 11 is the only step that writes sys.path;
\* with __file__ bound it makes the path exactly one entry longer whatever
\* the path held before, and control never comes back to it.
C4_SingleInsertion ==
    [][ /\ (pc = "insert" /\ file # NoFile) =>
               /\ Len(sys_path') = Len(sys_path) + 1
               /\ Len(sys_path') = Len(path0) + 1
        /\ pc # "insert" => sys_path' = sys_path
        /\ pc' # "insert" ]_vars

C4_Witness ==
    /\ Terminal
    /\ imports = 1
    /\ OnPath(path0, Src)
    /\ Len(sys_path) = Len(path0) + 1

\* No entry of the search path holds ui.dashboard.
NoDashboardOnPath ==
    \A i \in 1..Len(sys_path) : ~HasDashboard(files[sys_path[i]])

\* No entry of the search path holds anything named ui.
NoUiOnPath ==
    \A i \in 1..Len(sys_path) : files[sys_path[i]] = "none"

\* C5 as claimed (P5, missing module): when neither src nor any other entry
\* of the search path holds ui.dashboard, the import ends the run with a
\* ModuleNotFoundError naming ui.dashboard, and main() is never called.
C5_Original ==
    (imports = 1 /\ NoDashboardOnPath) =>
        /\ pc = "raised"
        /\ exc = Exc("ModuleNotFoundError", "ui.dashboard")
        /\ calls = 0

\* C5 as amended: in that case the import ends the run with a
\* ModuleNotFoundError naming the first part of ui.dashboard that is not
\* found: ui when no entry of the search path holds anything named ui,
\* ui.dashboard when one holds ui but none holds the dashboard; main() is
\* never called.
C5_MissingModule ==
    (imports = 1 /\ NoDashboardOnPath) =>
        /\ pc = "raised"
        /\ exc.type = "ModuleNotFoundError"
        /\ exc.arg = IF NoUiOnPath THEN "ui" ELSE "ui.dashboard"
        /\ calls = 0
        /\ mainState = "not_called"
        /\ main = Unbound

C5_Witness ==
    /\ pc = "raised"
    /\ imports = 1
    /\ NoDashboardOnPath
    /\ ~NoUiOnPath
    /\ exc = Exc("ModuleNotFoundError", "ui.dashboard")

\* C6 (P4, propagation): when main() raises E the run ends raising E itself,
\* the same type and argument, after the one call.
C6_Propagation ==
    (mainBehaviour.kind = "raise" /\ calls >= 1 /\ pc # "in_main") =>
        /\ pc = "raised"
        /\ exc = mainBehaviour.err
        /\ mainState = "raised"
        /\ calls = 1

C6_Witness ==
    /\ pc = "raised"
    /\ mainState = "raised"
    /\ exc = Exc("ValueError", "E1")

\* C7 as claimed (resolution failure): when the entry file's location cannot
\* be determined the run fails with a PathResolutionError, without importing
\* ui.dashboard or calling main().
C7_Original ==
    (file = NoFile /\ pc # "insert") =>
        /\ pc = "raised"
        /\ exc.type = "PathResolutionError"
        /\ imports = 0
        /\ calls = 0

\* C7 as amended: when __file__ is not bound the run fails at line 11 with a
\* NameError for __file__, without importing ui.dashboard or calling main().
C7_NameError ==
    (file = NoFile /\ pc # "insert") =>
        /\ pc = "raised"
        /\ exc = Exc("NameError", "__file__")
        /\ imports = 0
        /\ calls = 0
        /\ main = Unbound

C7_Witness ==
    /\ file = NoFile
    /\ pc = "raised"
    /\ name = "__main__"
    /\ exc.type = "NameError"

C9_Original ==
    (Terminal /\ sys_path # path0) => imports = 1

\* C9 as amended: the module body has one branch, the __name__ guard.  A
\* finished run that wrote sys.path attempted the import exactly when
\* __name__ is "__main__", and called main() exactly when that import
\* succeeded; under any other __name__ sys.path is written and the import
\* and the call are skipped.
C9_GuardedPath ==
    (Terminal /\ sys_path # path0) =>
        /\ (imports = 1) <=> (name = "__main__")
        /\ (calls = 1) <=> (imports = 1 /\ main # Unbound)
        /\ imports <= 1
        /\ calls <= 1

C9_Witness ==
    /\ pc = "done"
    /\ name # "__main__"
    /\ sys_path # path0
    /\ imports = 0
    /\ calls = 0

\* C10 (delegation lifetime): main() is never called twice; a run whose
\* import succeeded and that is over has called main() exactly once; it
\* reaches the end of the module body only after that call has returned, so
\* never when main() does not return.
C10_DelegationLifetime ==
    /\ calls <= 1
    /\ (main # Unbound /\ Terminal) => calls = 1
    /\ (main # Unbound /\ pc = "done") =>
           /\ mainState = "returned"
           /\ mainBehaviour.kind = "return"
    /\ (mainBehaviour.kind = "hang" /\ calls = 1) => pc = "in_main"

C10_Witness ==
    /\ pc = "in_main"
    /\ mainBehaviour.kind = "hang"
    /\ calls = 1
    /\ main = Src

====
